---------------------------- MODULE Spec2Model ----------------------------
(***************************************************************************)
(* Matrix<T> of src/src/lib.rs: a row-major dense matrix with the four     *)
(* reference/value variants of +, - and *, and its Display rendering.      *)
(*                                                                         *)
(* A Matrix is the record [data, row, col]; data is a sequence, indexed    *)
(* from 0 in the source and from 1 here (At(s, i) reads s[i]).  Elements   *)
(* are mathematical integers: the element type's overflow is outside the   *)
(* model.  A call either returns (kind "ok") or panics (kind "panic"),     *)
(* and a panic ends the run: no action is enabled after it.                *)
(***************************************************************************)
EXTENDS Integers, Sequences, FiniteSets

\* Largest row and column count of the enumerated operands.
MaxDim == 2
\* Largest element count of an enumerated well-formed operand (row * col).
MaxLen == 4
\* Largest element count of an operand constructed without regard to its shape.
MaxAnyLen == 3
\* How many times a run binds a result to an operand for a later call.
MaxReuse == 1
\* Element values of the enumerated operands.
Vals == {-1, 2}

VARIABLES
    x,        \* left operand of the calls (a Matrix)
    y,        \* right operand of the calls (a Matrix)
    z,        \* the last returned matrix: <<>> or <<Matrix>>
    call,     \* the last call: [op, on]
    outcome,  \* how it ended: [kind, why, acc]
    text,     \* the String the last call formatted, as a sequence of characters
    reuse     \* results bound to an operand so far

vars == <<x, y, z, call, outcome, text, reuse>>

-----------------------------------------------------------------------------
\* Vec<T> indexing s[i], 0-based.
At(s, i) == s[i + 1]

\* lib.rs:16-18  Matrix::new: data is a copy of values; the length is not checked.
new(row, col, values) == [data |-> values, row |-> row, col |-> col]

\* lib.rs:22-24  Matrix::new_empty: no element, the given shape.
new_empty(row, col) == [data |-> <<>>, row |-> row, col |-> col]

\* lib.rs:27-29  Matrix::data.
data(m) == m.data

\* lib.rs:38-40  Matrix::size.
size(m) == <<m.row, m.col>>

\* m.data.push(v) on an accumulator matrix.
Push(m, v) == [m EXCEPT !.data = Append(@, v)]

\* A call that returns the matrix acc.
Ok(acc) == [kind |-> "ok", why |-> "", acc |-> <<acc>>]

\* A call that panics: why is "shape" (the explicit panic!()), "step" (step_by(0)),
\* "index" (a Vec index out of bounds) or "rem" (remainder by zero); acc is the
\* accumulator as far as it was built, <<>> when none was created.
Panic(why, acc) == [kind |-> "panic", why |-> why, acc |-> acc]

-----------------------------------------------------------------------------
\* Addition: the four calling conventions, each from its own impl block.
\* lib.rs:47-58  &Matrix<T> + &Matrix<T>: the loop "for i in 0..self.data.len()" from index i on.
\* self.data[i] is always in bounds; rhs.data[i] panics when i >= rhs.data.len().
RECURSIVE AddRefRefLoop(_, _, _, _)
AddRefRefLoop(self, rhs, i, add_matrix) ==
    IF i >= Len(self.data) THEN Ok(add_matrix)
    ELSE IF i >= Len(rhs.data) THEN Panic("index", <<add_matrix>>)
    ELSE AddRefRefLoop(self, rhs, i + 1, Push(add_matrix, At(self.data, i) + At(rhs.data, i)))

\* lib.rs:47-58  &Matrix<T> + &Matrix<T>: shape check, then the elementwise loop into a new_empty.
AddRefRef(self, rhs) ==
    IF self.row # rhs.row \/ self.col # rhs.col
    THEN Panic("shape", <<>>)
    ELSE AddRefRefLoop(self, rhs, 0, new_empty(self.row, self.col))

\* lib.rs:65-75  &Matrix<T> + Matrix<T>: the loop "for i in 0..self.data.len()" from index i on.
\* self.data[i] is always in bounds; rhs.data[i] panics when i >= rhs.data.len().
RECURSIVE AddRefValLoop(_, _, _, _)
AddRefValLoop(self, rhs, i, add_matrix) ==
    IF i >= Len(self.data) THEN Ok(add_matrix)
    ELSE IF i >= Len(rhs.data) THEN Panic("index", <<add_matrix>>)
    ELSE AddRefValLoop(self, rhs, i + 1, Push(add_matrix, At(self.data, i) + At(rhs.data, i)))

\* AddRefVal with the column comparison left out of the shape check.
AddRefValRowOnly(self, rhs) ==
    IF self.row # rhs.row
    THEN Panic("shape", <<>>)
    ELSE AddRefValLoop(self, rhs, 0, new_empty(self.row, self.col))

\* lib.rs:65-75  &Matrix<T> + Matrix<T>: shape check, then the elementwise loop into a new_empty.
AddRefVal(self, rhs) ==
    IF self.row # rhs.row \/ self.col # rhs.col
    THEN Panic("shape", <<>>)
    ELSE AddRefValLoop(self, rhs, 0, new_empty(self.row, self.col))

\* lib.rs:82-92  Matrix<T> + Matrix<T>: the loop "for i in 0..self.data.len()" from index i on.
\* self.data[i] is always in bounds; rhs.data[i] panics when i >= rhs.data.len().
RECURSIVE AddValValLoop(_, _, _, _)
AddValValLoop(self, rhs, i, add_matrix) ==
    IF i >= Len(self.data) THEN Ok(add_matrix)
    ELSE IF i >= Len(rhs.data) THEN Panic("index", <<add_matrix>>)
    ELSE AddValValLoop(self, rhs, i + 1, Push(add_matrix, At(self.data, i) + At(rhs.data, i)))

\* AddValVal with the loop started at index 1.
AddValValFromOne(self, rhs) ==
    IF self.row # rhs.row \/ self.col # rhs.col
    THEN Panic("shape", <<>>)
    ELSE AddValValLoop(self, rhs, 1, new_empty(self.row, self.col))

\* lib.rs:82-92  Matrix<T> + Matrix<T>: shape check, then the elementwise loop into a new_empty.
AddValVal(self, rhs) ==
    IF self.row # rhs.row \/ self.col # rhs.col
    THEN Panic("shape", <<>>)
    ELSE AddValValLoop(self, rhs, 0, new_empty(self.row, self.col))

\* AddValRefLoop run over 0..rhs.data.len(), so that self.data[i] is the index that
\* can be out of bounds.
RECURSIVE AddValRefLoopOverRhs(_, _, _, _)
AddValRefLoopOverRhs(self, rhs, i, add_matrix) ==
    IF i >= Len(rhs.data) THEN Ok(add_matrix)
    ELSE IF i >= Len(self.data) THEN Panic("index", <<add_matrix>>)
    ELSE AddValRefLoopOverRhs(self, rhs, i + 1, Push(add_matrix, At(self.data, i) + At(rhs.data, i)))

\* lib.rs:99-109  Matrix<T> + &Matrix<T>: the loop "for i in 0..self.data.len()" from index i on.
\* self.data[i] is always in bounds; rhs.data[i] panics when i >= rhs.data.len().
RECURSIVE AddValRefLoop(_, _, _, _)
AddValRefLoop(self, rhs, i, add_matrix) ==
    IF i >= Len(self.data) THEN Ok(add_matrix)
    ELSE IF i >= Len(rhs.data) THEN Panic("index", <<add_matrix>>)
    ELSE AddValRefLoop(self, rhs, i + 1, Push(add_matrix, At(self.data, i) + At(rhs.data, i)))

\* lib.rs:99-109  Matrix<T> + &Matrix<T>: shape check, then the elementwise loop into a new_empty.
AddValRef(self, rhs) ==
    IF self.row # rhs.row \/ self.col # rhs.col
    THEN Panic("shape", <<>>)
    ELSE AddValRefLoop(self, rhs, 0, new_empty(self.row, self.col))

-----------------------------------------------------------------------------
\* Subtraction: the four calling conventions, each from its own impl block.
\* lib.rs:116-126  &Matrix<T> - &Matrix<T>: the loop "for i in 0..self.data.len()" from index i on.
\* self.data[i] is always in bounds; rhs.data[i] panics when i >= rhs.data.len().
RECURSIVE SubRefRefLoop(_, _, _, _)
SubRefRefLoop(self, rhs, i, sub_matrix) ==
    IF i >= Len(self.data) THEN Ok(sub_matrix)
    ELSE IF i >= Len(rhs.data) THEN Panic("index", <<sub_matrix>>)
    ELSE SubRefRefLoop(self, rhs, i + 1, Push(sub_matrix, At(self.data, i) - At(rhs.data, i)))

\* SubRefRef adding instead of subtracting.
SubRefRefPlus(self, rhs) == AddRefRef(self, rhs)

\* lib.rs:116-126  &Matrix<T> - &Matrix<T>: shape check, then the elementwise loop into a new_empty.
SubRefRef(self, rhs) ==
    IF self.row # rhs.row \/ self.col # rhs.col
    THEN Panic("shape", <<>>)
    ELSE SubRefRefLoop(self, rhs, 0, new_empty(self.row, self.col))

\* lib.rs:133-143  &Matrix<T> - Matrix<T>: the loop "for i in 0..self.data.len()" from index i on.
\* self.data[i] is always in bounds; rhs.data[i] panics when i >= rhs.data.len().
RECURSIVE SubRefValLoop(_, _, _, _)
SubRefValLoop(self, rhs, i, sub_matrix) ==
    IF i >= Len(self.data) THEN Ok(sub_matrix)
    ELSE IF i >= Len(rhs.data) THEN Panic("index", <<sub_matrix>>)
    ELSE SubRefValLoop(self, rhs, i + 1, Push(sub_matrix, At(self.data, i) - At(rhs.data, i)))

\* lib.rs:133-143  &Matrix<T> - Matrix<T>: shape check, then the elementwise loop into a new_empty.
SubRefVal(self, rhs) ==
    IF self.row # rhs.row \/ self.col # rhs.col
    THEN Panic("shape", <<>>)
    ELSE SubRefValLoop(self, rhs, 0, new_empty(self.row, self.col))

\* lib.rs:150-160  Matrix<T> - Matrix<T>: the loop "for i in 0..self.data.len()" from index i on.
\* self.data[i] is always in bounds; rhs.data[i] panics when i >= rhs.data.len().
RECURSIVE SubValValLoop(_, _, _, _)
SubValValLoop(self, rhs, i, sub_matrix) ==
    IF i >= Len(self.data) THEN Ok(sub_matrix)
    ELSE IF i >= Len(rhs.data) THEN Panic("index", <<sub_matrix>>)
    ELSE SubValValLoop(self, rhs, i + 1, Push(sub_matrix, At(self.data, i) - At(rhs.data, i)))

\* lib.rs:150-160  Matrix<T> - Matrix<T>: shape check, then the elementwise loop into a new_empty.
SubValVal(self, rhs) ==
    IF self.row # rhs.row \/ self.col # rhs.col
    THEN Panic("shape", <<>>)
    ELSE SubValValLoop(self, rhs, 0, new_empty(self.row, self.col))

\* lib.rs:167-177  Matrix<T> - &Matrix<T>: the loop "for i in 0..self.data.len()" from index i on.
\* self.data[i] is always in bounds; rhs.data[i] panics when i >= rhs.data.len().
RECURSIVE SubValRefLoop(_, _, _, _)
SubValRefLoop(self, rhs, i, sub_matrix) ==
    IF i >= Len(self.data) THEN Ok(sub_matrix)
    ELSE IF i >= Len(rhs.data) THEN Panic("index", <<sub_matrix>>)
    ELSE SubValRefLoop(self, rhs, i + 1, Push(sub_matrix, At(self.data, i) - At(rhs.data, i)))

\* SubValRef with the operands of the subtraction exchanged.
SubValRefSwapped(self, rhs) ==
    IF self.row # rhs.row \/ self.col # rhs.col
    THEN Panic("shape", <<>>)
    ELSE SubValRefLoop(rhs, self, 0, new_empty(self.row, self.col))

\* lib.rs:167-177  Matrix<T> - &Matrix<T>: shape check, then the elementwise loop into a new_empty.
SubValRef(self, rhs) ==
    IF self.row # rhs.row \/ self.col # rhs.col
    THEN Panic("shape", <<>>)
    ELSE SubValRefLoop(self, rhs, 0, new_empty(self.row, self.col))

-----------------------------------------------------------------------------
\* MulRefRefDot with second_ele_index advanced by 1 instead of by rhs.col.
RECURSIVE MulRefRefDotUnitStride(_, _, _, _, _, _)
MulRefRefDotUnitStride(self, rhs, first_ele_index, second_ele_index, left, store_vec) ==
    IF left = 0 THEN [ok |-> TRUE, store_vec |-> store_vec]
    ELSE IF first_ele_index >= Len(self.data) \/ second_ele_index >= Len(rhs.data)
    THEN [ok |-> FALSE, store_vec |-> store_vec]
    ELSE MulRefRefDotUnitStride(self, rhs, first_ele_index + 1, second_ele_index + 1, left - 1,
                Append(store_vec, At(self.data, first_ele_index) * At(rhs.data, second_ele_index)))

\* Multiplication: the four calling conventions, each from its own impl block.
\* lib.rs:184-206  &Matrix<T> * &Matrix<T>: "for first_ele_index in (first_row_index..).take(self.col)",
\* with `left` iterations to go; pushes self.data[first_ele_index] * rhs.data[second_ele_index]
\* and advances second_ele_index by rhs.col. Either index panics when out of bounds.
RECURSIVE MulRefRefDot(_, _, _, _, _, _)
MulRefRefDot(self, rhs, first_ele_index, second_ele_index, left, store_vec) ==
    IF left = 0 THEN [ok |-> TRUE, store_vec |-> store_vec]
    ELSE IF first_ele_index >= Len(self.data) \/ second_ele_index >= Len(rhs.data)
    THEN [ok |-> FALSE, store_vec |-> store_vec]
    ELSE MulRefRefDot(self, rhs, first_ele_index + 1, second_ele_index + rhs.col, left - 1,
                Append(store_vec, At(self.data, first_ele_index) * At(rhs.data, second_ele_index)))

\* lib.rs:184-206  &Matrix<T> * &Matrix<T>: "for index in 1..store_vec.len() { sum = sum + store_vec[index] }".
RECURSIVE MulRefRefSum(_, _, _)
MulRefRefSum(store_vec, index, sum) ==
    IF index >= Len(store_vec) THEN sum
    ELSE MulRefRefSum(store_vec, index + 1, sum + At(store_vec, index))

\* MulRefRefCols with second_ele_index started at 0 for every column of rhs.
RECURSIVE MulRefRefColsFromZero(_, _, _, _, _)
MulRefRefColsFromZero(self, rhs, first_row_index, second_col_index, mul_matrix) ==
    IF second_col_index >= rhs.col THEN [ok |-> TRUE, mul_matrix |-> mul_matrix]
    ELSE LET d == MulRefRefDot(self, rhs, first_row_index, 0, self.col, <<>>)
         IN  IF ~d.ok \/ Len(d.store_vec) = 0
             THEN [ok |-> FALSE, mul_matrix |-> mul_matrix]
             ELSE MulRefRefColsFromZero(self, rhs, first_row_index, second_col_index + 1,
                          Push(mul_matrix, MulRefRefSum(d.store_vec, 1, At(d.store_vec, 0))))

\* lib.rs:184-206  &Matrix<T> * &Matrix<T>: "for second_col_index in 0..rhs.col": one dot product per
\* column of rhs, summed from store_vec[0] (which panics on an empty store_vec) and pushed.
RECURSIVE MulRefRefCols(_, _, _, _, _)
MulRefRefCols(self, rhs, first_row_index, second_col_index, mul_matrix) ==
    IF second_col_index >= rhs.col THEN [ok |-> TRUE, mul_matrix |-> mul_matrix]
    ELSE LET d == MulRefRefDot(self, rhs, first_row_index, second_col_index, self.col, <<>>)
         IN  IF ~d.ok \/ Len(d.store_vec) = 0
             THEN [ok |-> FALSE, mul_matrix |-> mul_matrix]
             ELSE MulRefRefCols(self, rhs, first_row_index, second_col_index + 1,
                          Push(mul_matrix, MulRefRefSum(d.store_vec, 1, At(d.store_vec, 0))))

\* lib.rs:184-206  &Matrix<T> * &Matrix<T>: "for first_row_index in (0..self.data.len()).step_by(self.col)"
\* from first_row_index on.
RECURSIVE MulRefRefRows(_, _, _, _)
MulRefRefRows(self, rhs, first_row_index, mul_matrix) ==
    IF first_row_index >= Len(self.data) THEN Ok(mul_matrix)
    ELSE LET c == MulRefRefCols(self, rhs, first_row_index, 0, mul_matrix)
         IN  IF ~c.ok THEN Panic("index", <<c.mul_matrix>>)
             ELSE MulRefRefRows(self, rhs, first_row_index + self.col, c.mul_matrix)

\* lib.rs:184-206  &Matrix<T> * &Matrix<T>: inner-dimension check, then the row loop into a new_empty.
\* step_by(0) panics when the iterator is built, before the first iteration.
MulRefRef(self, rhs) ==
    IF self.col # rhs.row
    THEN Panic("shape", <<>>)
    ELSE IF self.col = 0
    THEN Panic("step", <<new_empty(self.row, rhs.col)>>)
    ELSE MulRefRefRows(self, rhs, 0, new_empty(self.row, rhs.col))

\* lib.rs:213-235  &Matrix<T> * Matrix<T>: "for first_ele_index in (first_row_index..).take(self.col)",
\* with `left` iterations to go; pushes self.data[first_ele_index] * rhs.data[second_ele_index]
\* and advances second_ele_index by rhs.col. Either index panics when out of bounds.
RECURSIVE MulRefValDot(_, _, _, _, _, _)
MulRefValDot(self, rhs, first_ele_index, second_ele_index, left, store_vec) ==
    IF left = 0 THEN [ok |-> TRUE, store_vec |-> store_vec]
    ELSE IF first_ele_index >= Len(self.data) \/ second_ele_index >= Len(rhs.data)
    THEN [ok |-> FALSE, store_vec |-> store_vec]
    ELSE MulRefValDot(self, rhs, first_ele_index + 1, second_ele_index + rhs.col, left - 1,
                Append(store_vec, At(self.data, first_ele_index) * At(rhs.data, second_ele_index)))

\* lib.rs:213-235  &Matrix<T> * Matrix<T>: "for index in 1..store_vec.len() { sum = sum + store_vec[index] }".
RECURSIVE MulRefValSum(_, _, _)
MulRefValSum(store_vec, index, sum) ==
    IF index >= Len(store_vec) THEN sum
    ELSE MulRefValSum(store_vec, index + 1, sum + At(store_vec, index))

\* lib.rs:213-235  &Matrix<T> * Matrix<T>: "for second_col_index in 0..rhs.col": one dot product per
\* column of rhs, summed from store_vec[0] (which panics on an empty store_vec) and pushed.
RECURSIVE MulRefValCols(_, _, _, _, _)
MulRefValCols(self, rhs, first_row_index, second_col_index, mul_matrix) ==
    IF second_col_index >= rhs.col THEN [ok |-> TRUE, mul_matrix |-> mul_matrix]
    ELSE LET d == MulRefValDot(self, rhs, first_row_index, second_col_index, self.col, <<>>)
         IN  IF ~d.ok \/ Len(d.store_vec) = 0
             THEN [ok |-> FALSE, mul_matrix |-> mul_matrix]
             ELSE MulRefValCols(self, rhs, first_row_index, second_col_index + 1,
                          Push(mul_matrix, MulRefValSum(d.store_vec, 1, At(d.store_vec, 0))))

\* lib.rs:213-235  &Matrix<T> * Matrix<T>: "for first_row_index in (0..self.data.len()).step_by(self.col)"
\* from first_row_index on.
RECURSIVE MulRefValRows(_, _, _, _)
MulRefValRows(self, rhs, first_row_index, mul_matrix) ==
    IF first_row_index >= Len(self.data) THEN Ok(mul_matrix)
    ELSE LET c == MulRefValCols(self, rhs, first_row_index, 0, mul_matrix)
         IN  IF ~c.ok THEN Panic("index", <<c.mul_matrix>>)
             ELSE MulRefValRows(self, rhs, first_row_index + self.col, c.mul_matrix)

\* lib.rs:213-235  &Matrix<T> * Matrix<T>: inner-dimension check, then the row loop into a new_empty.
\* step_by(0) panics when the iterator is built, before the first iteration.
MulRefVal(self, rhs) ==
    IF self.col # rhs.row
    THEN Panic("shape", <<>>)
    ELSE IF self.col = 0
    THEN Panic("step", <<new_empty(self.row, rhs.col)>>)
    ELSE MulRefValRows(self, rhs, 0, new_empty(self.row, rhs.col))

\* lib.rs:242-264  Matrix<T> * Matrix<T>: "for first_ele_index in (first_row_index..).take(self.col)",
\* with `left` iterations to go; pushes self.data[first_ele_index] * rhs.data[second_ele_index]
\* and advances second_ele_index by rhs.col. Either index panics when out of bounds.
RECURSIVE MulValValDot(_, _, _, _, _, _)
MulValValDot(self, rhs, first_ele_index, second_ele_index, left, store_vec) ==
    IF left = 0 THEN [ok |-> TRUE, store_vec |-> store_vec]
    ELSE IF first_ele_index >= Len(self.data) \/ second_ele_index >= Len(rhs.data)
    THEN [ok |-> FALSE, store_vec |-> store_vec]
    ELSE MulValValDot(self, rhs, first_ele_index + 1, second_ele_index + rhs.col, left - 1,
                Append(store_vec, At(self.data, first_ele_index) * At(rhs.data, second_ele_index)))

\* lib.rs:242-264  Matrix<T> * Matrix<T>: "for index in 1..store_vec.len() { sum = sum + store_vec[index] }".
RECURSIVE MulValValSum(_, _, _)
MulValValSum(store_vec, index, sum) ==
    IF index >= Len(store_vec) THEN sum
    ELSE MulValValSum(store_vec, index + 1, sum + At(store_vec, index))

\* lib.rs:242-264  Matrix<T> * Matrix<T>: "for second_col_index in 0..rhs.col": one dot product per
\* column of rhs, summed from store_vec[0] (which panics on an empty store_vec) and pushed.
RECURSIVE MulValValCols(_, _, _, _, _)
MulValValCols(self, rhs, first_row_index, second_col_index, mul_matrix) ==
    IF second_col_index >= rhs.col THEN [ok |-> TRUE, mul_matrix |-> mul_matrix]
    ELSE LET d == MulValValDot(self, rhs, first_row_index, second_col_index, self.col, <<>>)
         IN  IF ~d.ok \/ Len(d.store_vec) = 0
             THEN [ok |-> FALSE, mul_matrix |-> mul_matrix]
             ELSE MulValValCols(self, rhs, first_row_index, second_col_index + 1,
                          Push(mul_matrix, MulValValSum(d.store_vec, 1, At(d.store_vec, 0))))

\* lib.rs:242-264  Matrix<T> * Matrix<T>: "for first_row_index in (0..self.data.len()).step_by(self.col)"
\* from first_row_index on.
RECURSIVE MulValValRows(_, _, _, _)
MulValValRows(self, rhs, first_row_index, mul_matrix) ==
    IF first_row_index >= Len(self.data) THEN Ok(mul_matrix)
    ELSE LET c == MulValValCols(self, rhs, first_row_index, 0, mul_matrix)
         IN  IF ~c.ok THEN Panic("index", <<c.mul_matrix>>)
             ELSE MulValValRows(self, rhs, first_row_index + self.col, c.mul_matrix)

\* MulValVal with the accumulator created as new_empty(self.row, rhs.row).
MulValValWrongShape(self, rhs) ==
    IF self.col # rhs.row
    THEN Panic("shape", <<>>)
    ELSE IF self.col = 0
    THEN Panic("step", <<new_empty(self.row, rhs.row)>>)
    ELSE MulValValRows(self, rhs, 0, new_empty(self.row, rhs.row))

\* lib.rs:242-264  Matrix<T> * Matrix<T>: inner-dimension check, then the row loop into a new_empty.
\* step_by(0) panics when the iterator is built, before the first iteration.
MulValVal(self, rhs) ==
    IF self.col # rhs.row
    THEN Panic("shape", <<>>)
    ELSE IF self.col = 0
    THEN Panic("step", <<new_empty(self.row, rhs.col)>>)
    ELSE MulValValRows(self, rhs, 0, new_empty(self.row, rhs.col))

\* lib.rs:271-293  Matrix<T> * &Matrix<T>: "for first_ele_index in (first_row_index..).take(self.col)",
\* with `left` iterations to go; pushes self.data[first_ele_index] * rhs.data[second_ele_index]
\* and advances second_ele_index by rhs.col. Either index panics when out of bounds.
RECURSIVE MulValRefDot(_, _, _, _, _, _)
MulValRefDot(self, rhs, first_ele_index, second_ele_index, left, store_vec) ==
    IF left = 0 THEN [ok |-> TRUE, store_vec |-> store_vec]
    ELSE IF first_ele_index >= Len(self.data) \/ second_ele_index >= Len(rhs.data)
    THEN [ok |-> FALSE, store_vec |-> store_vec]
    ELSE MulValRefDot(self, rhs, first_ele_index + 1, second_ele_index + rhs.col, left - 1,
                Append(store_vec, At(self.data, first_ele_index) * At(rhs.data, second_ele_index)))

\* lib.rs:271-293  Matrix<T> * &Matrix<T>: "for index in 1..store_vec.len() { sum = sum + store_vec[index] }".
RECURSIVE MulValRefSum(_, _, _)
MulValRefSum(store_vec, index, sum) ==
    IF index >= Len(store_vec) THEN sum
    ELSE MulValRefSum(store_vec, index + 1, sum + At(store_vec, index))

\* lib.rs:271-293  Matrix<T> * &Matrix<T>: "for second_col_index in 0..rhs.col": one dot product per
\* column of rhs, summed from store_vec[0] (which panics on an empty store_vec) and pushed.
RECURSIVE MulValRefCols(_, _, _, _, _)
MulValRefCols(self, rhs, first_row_index, second_col_index, mul_matrix) ==
    IF second_col_index >= rhs.col THEN [ok |-> TRUE, mul_matrix |-> mul_matrix]
    ELSE LET d == MulValRefDot(self, rhs, first_row_index, second_col_index, self.col, <<>>)
         IN  IF ~d.ok \/ Len(d.store_vec) = 0
             THEN [ok |-> FALSE, mul_matrix |-> mul_matrix]
             ELSE MulValRefCols(self, rhs, first_row_index, second_col_index + 1,
                          Push(mul_matrix, MulValRefSum(d.store_vec, 1, At(d.store_vec, 0))))

\* lib.rs:271-293  Matrix<T> * &Matrix<T>: "for first_row_index in (0..self.data.len()).step_by(self.col)"
\* from first_row_index on.
RECURSIVE MulValRefRows(_, _, _, _)
MulValRefRows(self, rhs, first_row_index, mul_matrix) ==
    IF first_row_index >= Len(self.data) THEN Ok(mul_matrix)
    ELSE LET c == MulValRefCols(self, rhs, first_row_index, 0, mul_matrix)
         IN  IF ~c.ok THEN Panic("index", <<c.mul_matrix>>)
             ELSE MulValRefRows(self, rhs, first_row_index + self.col, c.mul_matrix)

\* lib.rs:271-293  Matrix<T> * &Matrix<T>: inner-dimension check, then the row loop into a new_empty.
\* step_by(0) panics when the iterator is built, before the first iteration.
MulValRef(self, rhs) ==
    IF self.col # rhs.row
    THEN Panic("shape", <<>>)
    ELSE IF self.col = 0
    THEN Panic("step", <<new_empty(self.row, rhs.col)>>)
    ELSE MulValRefRows(self, rhs, 0, new_empty(self.row, rhs.col))

-----------------------------------------------------------------------------
\* Formatting.  A String is a sequence of one-character strings.

\* The decimal digit d as a character.
Digit(d) == <<"0", "1", "2", "3", "4", "5", "6", "7", "8", "9">>[d + 1]

\* The decimal digits of n >= 0, most significant first.
RECURSIVE Digits(_)
Digits(n) == IF n < 10 THEN <<Digit(n)>> ELSE Digits(n \div 10) \o <<Digit(n % 10)>>

\* lib.rs:305  format!("{}", self.data[index]) for an integer element: its decimal
\* digits, after a minus sign when it is negative.
Display(v) == IF v < 0 THEN <<"-">> \o Digits(-v) ELSE Digits(v)

\* lib.rs:303-309  the loop "for index in 0..self.data.len()" from index on:
\* "index % self.col" panics when self.col is 0.
RECURSIVE fmtLoop(_, _, _)
fmtLoop(self, index, outstr) ==
    IF index >= Len(self.data) THEN [kind |-> "ok", why |-> "", text |-> outstr]
    ELSE IF self.col = 0 THEN [kind |-> "panic", why |-> "rem", text |-> outstr]
    ELSE IF index % self.col = self.col - 1
         THEN fmtLoop(self, index + 1, outstr \o Display(At(self.data, index)) \o <<"\n">>)
         ELSE fmtLoop(self, index + 1, outstr \o Display(At(self.data, index)) \o <<" ">>)

\* fmt with the loop started at index 1.
fmtFromOne(self) == fmtLoop(self, 1, <<>>)

\* lib.rs:301-311  <Matrix<T> as fmt::Display>::fmt.
fmt(self) == fmtLoop(self, 0, <<>>)

-----------------------------------------------------------------------------
\* Operands.

\* Every sequence of exactly n element values.
SeqsOfLen(n) == [1..n -> Vals]

\* Matrix::new(row, col, values) with values.len() == row * col.
WellFormedMatrices ==
    { new(r, c, v) : <<r, c, v>> \in
        UNION { { <<r, c, v>> : v \in SeqsOfLen(r * c) } :
                <<r, c>> \in { rc \in (0..MaxDim) \X (0..MaxDim) : rc[1] * rc[2] <= MaxLen } } }

\* Matrix::new(row, col, values) with values of any length, and Matrix::new_empty(row, col);
\* a matrix whose data was pushed to or popped from through mut_data is one of these too.
AnyMatrices ==
    { new(r, c, v) : <<r, c, v>> \in
        (0..MaxDim) \X (0..MaxDim) \X UNION { SeqsOfLen(n) : n \in 0..MaxAnyLen } }
    \cup { new_empty(r, c) : <<r, c>> \in (0..MaxDim) \X (0..MaxDim) }

\* lib.rs:319-320  the operands of test().
TestX == new(2, 3, <<-2, -1, 0, 1, 2, 3>>)
TestY == new(3, 2, <<1, 2, 3, 4, 5, 6>>)

NoCall == [op |-> "none", on |-> ""]
NoOutcome == [kind |-> "none", why |-> "", acc |-> <<>>]

\* Two matrices built by new with the right number of values, test()'s among them.
Init ==
    /\ \E p \in (WellFormedMatrices \X WellFormedMatrices) \cup {<<TestX, TestY>>} :
          x = p[1] /\ y = p[2]
    /\ z = <<>>
    /\ call = NoCall
    /\ outcome = NoOutcome
    /\ text = <<>>
    /\ reuse = 0

\* Two matrices built by new or new_empty, whatever the length of their data.
InitAny ==
    /\ x \in AnyMatrices \cup WellFormedMatrices
    /\ y \in AnyMatrices \cup WellFormedMatrices
    /\ z = <<>>
    /\ call = NoCall
    /\ outcome = NoOutcome
    /\ text = <<>>
    /\ reuse = 0

\* Three matrices built by new with the right number of values.
InitThree ==
    /\ x \in WellFormedMatrices
    /\ y \in WellFormedMatrices
    /\ z \in { <<m>> : m \in WellFormedMatrices }
    /\ call = NoCall
    /\ outcome = NoOutcome
    /\ text = <<>>
    /\ reuse = 0

-----------------------------------------------------------------------------
\* Calls.

\* lib.rs:322  "let z = &x * &y": a call of an operator on x and y that ended as r;
\* a returned matrix is bound to z, a panic leaves z as it was.
Call(op, r) ==
    /\ outcome.kind # "panic"
    /\ call' = [op |-> op, on |-> "xy"]
    /\ outcome' = r
    /\ z' = IF r.kind = "ok" THEN r.acc ELSE z
    /\ text' = <<>>
    /\ UNCHANGED <<x, y, reuse>>

AddRefRefCall == Call("add", AddRefRef(x, y))
AddRefValCall == Call("add", AddRefVal(x, y))
AddValValCall == Call("add", AddValVal(x, y))
AddValRefCall == Call("add", AddValRef(x, y))

SubRefRefCall == Call("sub", SubRefRef(x, y))
SubRefValCall == Call("sub", SubRefVal(x, y))
SubValValCall == Call("sub", SubValVal(x, y))
SubValRefCall == Call("sub", SubValRef(x, y))

MulRefRefCall == Call("mul", MulRefRef(x, y))
MulRefValCall == Call("mul", MulRefVal(x, y))
MulValValCall == Call("mul", MulValVal(x, y))
MulValRefCall == Call("mul", MulValRef(x, y))

\* lib.rs:324-325  format!("{}", x) and format!("{}", z): the operand or result named
\* by on is formatted into text.
Format(on, m) ==
    /\ outcome.kind # "panic"
    /\ LET f == fmt(m)
       IN  /\ outcome' = [kind |-> f.kind, why |-> f.why, acc |-> <<>>]
           /\ text' = f.text
    /\ call' = [op |-> "fmt", on |-> on]
    /\ UNCHANGED <<x, y, z, reuse>>

FormatCall ==
    \/ Format("x", x)
    \/ Format("y", y)
    \/ z # <<>> /\ Format("z", z[1])

\* lib.rs:322-325  a returned matrix is the operand of a later call: z is moved into
\* x or into y.
Rebind ==
    /\ outcome.kind # "panic"
    /\ z # <<>>
    /\ reuse < MaxReuse
    /\ \/ x' = z[1] /\ y' = y /\ call' = [op |-> "let", on |-> "x"]
       \/ y' = z[1] /\ x' = x /\ call' = [op |-> "let", on |-> "y"]
    /\ z' = <<>>
    /\ outcome' = NoOutcome
    /\ text' = <<>>
    /\ reuse' = reuse + 1

AddCalls == AddRefRefCall \/ AddRefValCall \/ AddValValCall \/ AddValRefCall
SubCalls == SubRefRefCall \/ SubRefValCall \/ SubValValCall \/ SubValRefCall
MulCalls == MulRefRefCall \/ MulRefValCall \/ MulValValCall \/ MulValRefCall

Next == AddCalls \/ SubCalls \/ MulCalls \/ FormatCall \/ Rebind

\* One call after another on well-formed operands, results reused.
Spec == Init /\ [][Next]_vars

\* The arithmetic operators on operands of any shape and length.
SpecAny == InitAny /\ [][AddCalls \/ SubCalls \/ MulCalls]_vars

\* Multiplication with a third well-formed matrix at hand.
SpecThree == InitThree /\ [][MulCalls]_vars

-----------------------------------------------------------------------------
\* Properties.

\* data.len() == row * col.
WellFormed(m) == Len(m.data) = m.row * m.col

\* The matrix a Format call was given.
Formatted == IF call.on = "x" THEN x ELSE IF call.on = "y" THEN y ELSE z[1]

\* C1: add or sub of operands whose row or col counts differ, and mul of operands
\* with x.col # y.row, end in the explicit shape panic, with no accumulator created
\* and so no element of a result computed; no matrix is returned.
ShapeMismatchPanics ==
    /\ (call.op \in {"add", "sub"} /\ (x.row # y.row \/ x.col # y.col))
          => outcome = Panic("shape", <<>>)
    /\ (call.op = "mul" /\ x.col # y.row)
          => outcome = Panic("shape", <<>>)

\* C1 witness: an addition of two non-empty operands with equal rows and different
\* columns has panicked.
ShapeMismatchSeen ==
    /\ call.op = "add"
    /\ x.row = y.row /\ x.col # y.col
    /\ Len(x.data) > 0 /\ Len(y.data) > 0
    /\ outcome.kind = "panic"

\* C2: the sum of two well-formed operands of equal shape is returned, has their
\* shape, exactly row * col elements, and element i is x.data[i] + y.data[i].
AddIsElementwise ==
    (call.op = "add" /\ WellFormed(x) /\ WellFormed(y) /\ size(x) = size(y))
        => /\ outcome.kind = "ok"
           /\ z # <<>>
           /\ size(z[1]) = size(x)
           /\ Len(data(z[1])) = x.row * x.col
           /\ \A i \in 0..(x.row * x.col - 1) :
                  At(data(z[1]), i) = At(data(x), i) + At(data(y), i)

\* C2 witness: two 2x2 matrices have been added.
AddSeen ==
    /\ call.op = "add"
    /\ outcome.kind = "ok"
    /\ size(x) = <<2, 2>> /\ Len(x.data) = 4
    /\ z # <<>> /\ z[1] # x

\* The sum over k in [0, n) of A.data[r*n + k] * B.data[k*p + c].
RECURSIVE DotProduct(_, _, _, _, _)
DotProduct(A, B, r, c, n) ==
    IF n = 0 THEN 0
    ELSE DotProduct(A, B, r, c, n - 1)
         + At(A.data, r * A.col + (n - 1)) * At(B.data, (n - 1) * B.col + c)

\* C3: the product of a well-formed (m,n) and a well-formed (n,p) matrix, m, n, p >= 1,
\* is returned with m*p elements, the one at r*p + c being the dot product of row r
\* of x and column c of y; test()'s operands give [-5, -8, 22, 28].
MulIsMatrixProduct ==
    /\ (/\ call.op = "mul" /\ WellFormed(x) /\ WellFormed(y) /\ x.col = y.row
        /\ x.row >= 1 /\ x.col >= 1 /\ y.col >= 1)
          => /\ outcome.kind = "ok"
             /\ z # <<>>
             /\ Len(data(z[1])) = x.row * y.col
             /\ \A r \in 0..(x.row - 1) : \A c \in 0..(y.col - 1) :
                    At(data(z[1]), r * y.col + c) = DotProduct(x, y, r, c, x.col)
    /\ (call.op = "mul" /\ x = TestX /\ y = TestY)
          => z = <<new(2, 2, <<-5, -8, 22, 28>>)>>

\* C3 witness: test()'s 2x3 and 3x2 matrices have been multiplied.
MulTestSeen ==
    /\ call.op = "mul"
    /\ x = TestX /\ y = TestY
    /\ outcome.kind = "ok"

\* C4 as claimed: the product of a well-formed (m,n) and a well-formed (n,p) matrix
\* is returned and has shape (m,p), for all m, n, p >= 0.
MulShapeLaw ==
    (call.op = "mul" /\ WellFormed(x) /\ WellFormed(y) /\ x.col = y.row)
        => /\ outcome.kind = "ok"
           /\ z # <<>>
           /\ size(z[1]) = <<x.row, y.col>>

\* Whether every result in S is a panic, or every one returns the same matrix.
Agree(S) ==
    \A r1 \in S : \A r2 \in S :
        /\ r1.kind = r2.kind
        /\ r1.kind = "ok" => r1.acc = r2.acc

\* C5: on the operands at hand, whatever their shapes and lengths, the four variants
\* of add agree, those of sub agree and those of mul agree; the call that was made
\* ended as they do.
VariantsAgree ==
    LET adds == {AddRefRef(x, y), AddRefVal(x, y), AddValVal(x, y), AddValRef(x, y)}
        subs == {SubRefRef(x, y), SubRefVal(x, y), SubValVal(x, y), SubValRef(x, y)}
        muls == {MulRefRef(x, y), MulRefVal(x, y), MulValVal(x, y), MulValRef(x, y)}
    IN  /\ Agree(adds) /\ Agree(subs) /\ Agree(muls)
        /\ call.op = "add" => Agree(adds \cup {outcome})
        /\ call.op = "sub" => Agree(subs \cup {outcome})
        /\ call.op = "mul" => Agree(muls \cup {outcome})

\* C5 witness: a subtraction of two non-empty operands, the left one malformed,
\* has returned a matrix.
VariantsSeen ==
    /\ call.op = "sub"
    /\ outcome.kind = "ok"
    /\ ~WellFormed(x)
    /\ z # <<>> /\ Len(z[1].data) > 0

\* C6: after x - y on well-formed operands of equal shape, adding y to the result,
\* by any of the four variants, returns a matrix equal to x.
SubThenAddRestores ==
    (call.op = "sub" /\ WellFormed(x) /\ WellFormed(y) /\ size(x) = size(y))
        => /\ outcome.kind = "ok"
           /\ z # <<>>
           /\ \A r \in {AddRefRef(z[1], y), AddRefVal(z[1], y),
                        AddValVal(z[1], y), AddValRef(z[1], y)} :
                  r = Ok(x)

\* C6 witness: a 2x2 matrix has been subtracted from another.
SubSeen ==
    /\ call.op = "sub"
    /\ outcome.kind = "ok"
    /\ size(x) = <<2, 2>> /\ Len(y.data) = 4
    /\ z # <<>> /\ z[1] # x

\* Elements k..col-1 of row r, each after a single space.
RECURSIVE RestOfLine(_, _, _)
RestOfLine(m, r, k) ==
    IF k >= m.col THEN <<>>
    ELSE <<" ">> \o Display(At(m.data, r * m.col + k)) \o RestOfLine(m, r, k + 1)

\* Rows r..row-1, one line each, every line ended by a newline.
RECURSIVE LinesFrom(_, _)
LinesFrom(m, r) ==
    IF r >= m.row THEN <<>>
    ELSE Display(At(m.data, r * m.col)) \o RestOfLine(m, r, 1) \o <<"\n">> \o LinesFrom(m, r + 1)

\* How many characters of s are ch.
Count(s, ch) == Cardinality({ i \in 1..Len(s) : s[i] = ch })

\* C7: a well-formed matrix with col >= 1 is rendered as exactly row lines, line r
\* holding the col elements of row r in order, separated by one space, each line
\* ended by a newline, with no space before a newline and no empty line; test()'s
\* 2x3 matrix renders as "-2 -1 0\n1 2 3\n".
FormatLayout ==
    /\ (call.op = "fmt" /\ Formatted.col >= 1 /\ WellFormed(Formatted))
          => /\ outcome.kind = "ok"
             /\ text = LinesFrom(Formatted, 0)
             /\ Count(text, "\n") = Formatted.row
             /\ Count(text, " ") = Formatted.row * (Formatted.col - 1)
             /\ Len(text) > 0 => text[1] \notin {"\n", " "} /\ text[Len(text)] = "\n"
             /\ \A i \in 1..(Len(text) - 1) :
                    /\ text[i + 1] = "\n" => text[i] \notin {" ", "\n"}
                    /\ text[i] = " " => text[i + 1] \notin {" ", "\n"}
    /\ (call.op = "fmt" /\ Formatted = TestX)
          => text = <<"-", "2", " ", "-", "1", " ", "0", "\n",
                      "1", " ", "2", " ", "3", "\n">>

\* C7 witness: test()'s 2x3 matrix has been formatted.
FormatTestSeen ==
    /\ call.op = "fmt"
    /\ call.on = "x" /\ x = TestX
    /\ Len(text) = 14

\* C8: for well-formed x of shape (m,n), y of shape (n,p) and z of shape (p,q),
\* m, n, p, q >= 1, (x * y) * z and x * (y * z) both return, and return equal matrices.
MulAssociative ==
    (/\ z # <<>>
     /\ WellFormed(x) /\ WellFormed(y) /\ WellFormed(z[1])
     /\ x.col = y.row /\ y.col = z[1].row
     /\ x.row >= 1 /\ x.col >= 1 /\ y.col >= 1 /\ z[1].col >= 1)
        => LET xy == MulRefRef(x, y)
               yz == MulRefRef(y, z[1])
           IN  /\ xy.kind = "ok"
               /\ yz.kind = "ok"
               /\ MulRefRef(xy.acc[1], z[1]).kind = "ok"
               /\ MulRefRef(xy.acc[1], z[1]) = MulRefRef(x, yz.acc[1])

\* C8 witness: x * y has been computed for 2x2 matrices and is at hand as the third
\* factor.
MulAssociativeSeen ==
    /\ call.op = "mul"
    /\ outcome.kind = "ok"
    /\ size(x) = <<2, 2>> /\ size(y) = <<2, 2>>
    /\ z # <<>> /\ z[1] # x /\ z[1] # y

\* C9: from operands built with values.len() == row * col, through any sequence of
\* calls with results reused as operands, every operand and every returned matrix
\* has data.len() == row * col; the accumulator a call returns is complete.
WellFormedPreserved ==
    /\ WellFormed(x)
    /\ WellFormed(y)
    /\ z # <<>> => WellFormed(z[1])
    /\ (call.op \in {"add", "sub", "mul"} /\ outcome.kind = "ok")
          => outcome.acc = z /\ WellFormed(outcome.acc[1])

\* C9 witness: a returned matrix was bound to an operand, and a later multiplication
\* has returned a matrix of more than one element.
ReuseSeen ==
    /\ reuse >= 1
    /\ call.op = "mul"
    /\ outcome.kind = "ok"
    /\ z # <<>> /\ Len(z[1].data) > 1

\* Whether the operands pass the shape check of the last call.
PassesShapeCheck ==
    \/ call.op \in {"add", "sub"} /\ x.row = y.row /\ x.col = y.col
    \/ call.op = "mul" /\ x.col = y.row

\* C10 as claimed: a call whose operands pass the shape check, one of them with
\* data.len() # row * col, ends in an out-of-bounds panic and returns no matrix.
MalformedAlwaysPanics ==
    (PassesShapeCheck /\ (~WellFormed(x) \/ ~WellFormed(y)))
        => outcome.kind = "panic" /\ outcome.why = "index"

\* C10 as amended: with a malformed operand past the shape check, add and sub panic
\* out of bounds exactly when y.data is shorter than x.data, and otherwise return
\* x.data.len() elements; mul panics in step_by when x.col is 0, panics out of bounds
\* exactly when y.col >= 1, x.data is non-empty and x.data.len() is no multiple of
\* x.col or y.data.len() < x.col * y.col, and otherwise returns
\* (x.data.len() / x.col) * y.col elements with shape (x.row, y.col).
MalformedOutcome ==
    (PassesShapeCheck /\ (~WellFormed(x) \/ ~WellFormed(y)))
        => /\ call.op \in {"add", "sub"} =>
                IF Len(y.data) < Len(x.data)
                THEN outcome.kind = "panic" /\ outcome.why = "index"
                ELSE /\ outcome.kind = "ok"
                     /\ size(z[1]) = size(x)
                     /\ Len(z[1].data) = Len(x.data)
           /\ call.op = "mul" =>
                IF x.col = 0
                THEN outcome.kind = "panic" /\ outcome.why = "step"
                ELSE IF /\ y.col >= 1
                        /\ Len(x.data) > 0
                        /\ \/ Len(x.data) % x.col # 0
                           \/ Len(y.data) < x.col * y.col
                THEN outcome.kind = "panic" /\ outcome.why = "index"
                ELSE /\ outcome.kind = "ok"
                     /\ size(z[1]) = <<x.row, y.col>>
                     /\ Len(z[1].data) = (Len(x.data) \div x.col) * y.col

\* C10 witness: an addition whose right operand is malformed has returned a matrix.
MalformedReturnSeen ==
    /\ call.op = "add"
    /\ WellFormed(x) /\ ~WellFormed(y)
    /\ Len(x.data) >= 1
    /\ outcome.kind = "ok"

=============================================================================
